---- MODULE Spec2Model ----
(***************************************************************************)
(* Model of h5jutils.py: codec discovery at module start-up, the channel   *)
(* decode/encode bridge (extract_channel, encode_channel) and the          *)
(* container reader and writer (read_h5j, write_binary_h5j).               *)
(*                                                                         *)
(* The external engine (ffmpeg) is the environment.  A successful encode   *)
(* followed by a successful decode gives back the raw stream; an engine    *)
(* that is killed or exits non-zero leaves a shorter or no output.         *)
(***************************************************************************)
EXTENDS Integers, Sequences, FiniteSets, TLC

\* ------------------------------------------------------------------ bounds
MaxFrames == 2
MaxChannels == 2
MaxRequest == 2
MaxCalls == 2

\* ------------------------------------------------------- values and arrays
None == [kind |-> "None"]

Pixels == <<0, 7, 200>>

Planes == {<<1, 2>>, <<2, 1>>}

Letters == {"R", "G", "B", "Y"}

Prod(s) ==
  LET RECURSIVE P(_)
      P(i) == IF i > Len(s) THEN 1 ELSE s[i] * P(i + 1)
  IN P(1)

\* a dense uint8 array with the given shape, row-major, last axis fastest
MkArray(shape, seed) ==
  [kind |-> "ndarray", shape |-> shape,
   data |-> [i \in 1..Prod(shape) |-> Pixels[((i + seed) % 3) + 1]]]

\* arr[:, :, :, None]
AddAxis(a) == [a EXCEPT !.shape = Append(a.shape, 1)]

\* arr[:, :, :, n] of a 4D array
SliceChannel(a, n) ==
  LET K == a.shape[4]
      m == a.shape[1] * a.shape[2] * a.shape[3]
  IN [kind |-> "ndarray", shape |-> SubSeq(a.shape, 1, 3),
      data |-> [j \in 1..m |-> a.data[(j - 1) * K + n + 1]]]

\* the same, with the arrays taken in reverse order
Concatenate_Reversed(list) ==
  IF Len(list) = 0 THEN [err |-> "ValueError", value |-> None]
  ELSE IF \E i \in 1..Len(list) :
            SubSeq(list[i].shape, 1, 3) /= SubSeq(list[1].shape, 1, 3)
  THEN [err |-> "ValueError", value |-> None]
  ELSE LET N == Len(list)
           m == Prod(SubSeq(list[1].shape, 1, 3))
       IN [err |-> "",
           value |-> [kind |-> "ndarray",
                      shape |-> SubSeq(list[1].shape, 1, 3) \o <<N>>,
                      data |-> [p \in 1..(m * N) |->
                                  list[N - ((p - 1) % N)].data[((p - 1) \div N) + 1]]]]

\* np.concatenate(list of (F,H,W,1) arrays, axis = 3)
Concatenate(list) ==
  IF Len(list) = 0 THEN [err |-> "ValueError", value |-> None]
  ELSE IF \E i \in 1..Len(list) :
            SubSeq(list[i].shape, 1, 3) /= SubSeq(list[1].shape, 1, 3)
  THEN [err |-> "ValueError", value |-> None]
  ELSE LET N == Len(list)
           m == Prod(SubSeq(list[1].shape, 1, 3))
       IN [err |-> "",
           value |-> [kind |-> "ndarray",
                      shape |-> SubSeq(list[1].shape, 1, 3) \o <<N>>,
                      data |-> [p \in 1..(m * N) |->
                                  list[((p - 1) % N) + 1].data[((p - 1) \div N) + 1]]]]

\* np.frombuffer(..., dtype = np.int8): a byte seen as a signed value
AsInt8(bytes) == [i \in 1..Len(bytes) |-> IF bytes[i] >= 128 THEN bytes[i] - 256 ELSE bytes[i]]

\* ndarray.tobytes() of an int8 or uint8 array
ToBytes(vals) == [i \in 1..Len(vals) |-> vals[i] % 256]

\* np.frombuffer(stdout_data, dtype): elements of 1 or 2 bytes, little endian
FromBuffer(bytes, width) ==
  IF Len(bytes) % width /= 0 THEN [err |-> "ValueError", value |-> <<>>]
  ELSE [err |-> "",
        value |-> [i \in 1..(Len(bytes) \div width) |->
                     IF width = 1 THEN bytes[i]
                     ELSE bytes[2 * i - 1] + 256 * bytes[2 * i]]]

\* .reshape(-1, height, width)
Reshape(elems, height, width) ==
  IF height * width = 0 \/ Len(elems) % (height * width) /= 0
  THEN [err |-> "ValueError", value |-> None]
  ELSE [err |-> "",
        value |-> [kind |-> "ndarray",
                   shape |-> <<Len(elems) \div (height * width), height, width>>,
                   data |-> elems]]

\* ------------------------------------------------------- codec discovery
\* a line of `ffmpeg -codecs` is a sequence of tokens
LineH264 == <<"DEV.LS", " ", "h264", " ", "(", "encoders: ", "libx264", " ", ")">>
LineHevcFull == <<"DEV.L.", " ", "hevc", " ", "(", "decoders: ", "hevc", " ", ")", " ",
                  "(", "encoders: ", "libx265", " ", "hevc_nvenc", " ", ")">>
LineHevcOne == <<"DEV.L.", " ", "hevc", " ", "(", "encoders: ", "libx265", ")">>
LineHevcDecodeOnly == <<"D.V.L.", " ", "hevc", " ", "H.265">>

\* 'hevc' in line
MentionsHevc(line) == \E i \in 1..Len(line) : line[i] \in {"hevc", "hevc_nvenc"}

\* s.split(sep): the pieces of a token sequence between occurrences of sep
Split(s, sep) ==
  LET RECURSIVE Sp(_, _, _)
      Sp(i, cur, acc) ==
        IF i > Len(s) THEN Append(acc, cur)
        ELSE IF s[i] = sep THEN Sp(i + 1, <<>>, Append(acc, cur))
        ELSE Sp(i + 1, Append(cur, s[i]), acc)
  IN Sp(1, <<>>, <<>>)

\* line.split('encoders: ')[1].split(')')[0].split(' ')
ParseEncoders(line) ==
  LET a == Split(line, "encoders: ")
  IN IF Len(a) < 2 THEN [err |-> "IndexError", value |-> <<>>]
     ELSE [err |-> "", value |-> Split(Split(a[2], ")")[1], " ")]

\* stdout_data.decode().split('\n'): the output ends with a newline
SplitLines(out) == Append(out, <<>>)

EngineInstalls ==
  { [present |-> FALSE, stdout |-> <<>>],
    [present |-> TRUE, stdout |-> <<>>],
    [present |-> TRUE, stdout |-> <<LineH264>>],
    [present |-> TRUE, stdout |-> <<LineH264, LineHevcFull>>],
    [present |-> TRUE, stdout |-> <<LineHevcOne>>],
    [present |-> TRUE, stdout |-> <<LineH264, LineHevcDecodeOnly>>] }

get_hevc_codecs(eng) ==
  IF ~eng.present THEN [err |-> "FileNotFoundError", value |-> <<>>]
  ELSE
    LET lines == SplitLines(eng.stdout)
        RECURSIVE Go(_, _)
        Go(i, acc) ==
          IF i > Len(lines) THEN [err |-> "", value |-> acc]
          ELSE IF MentionsHevc(lines[i])
          THEN LET p == ParseEncoders(lines[i])
               IN IF p.err /= "" THEN [err |-> p.err, value |-> <<>>]
                  ELSE Go(i + 1, acc \o p.value)
          ELSE Go(i + 1, acc)
    IN Go(1, <<>>)

ReadApi == {"get_hevc_codecs", "extract_channel", "read_h5j", "mip"}
WriteApi == {"encode_channel", "write_binary_h5j"}


\* ------------------------------------------------------------ containers
\* the bytes of an encoded channel: what the engine muxed, and from what
Mux(width, height, pix_fmt, codec, raw) ==
  [size |-> <<width, height>>, pix_fmt |-> pix_fmt, codec |-> codec, stream |-> raw]

\* a dataset holds the encoded bytes as an int8 array, plus its tag
Dataset(cc, tag) == [data |-> cc, content_type |-> tag]

\* h5file["Channels"][name][()].tobytes()
DatasetBytes(ds) == [ds.data EXCEPT !.stream = ToBytes(ds.data.stream)]

\* the encoded file seen through np.frombuffer(f.read(), dtype = np.int8)
FileAsInt8(blob) == [blob EXCEPT !.stream = AsInt8(blob.stream)]

ChannelAttrs(nframes, height, width) ==
  [frames |-> <<nframes>>, height |-> <<height>>, pad_bottom |-> <<0>>,
   pad_right |-> <<0>>, width |-> <<width>>]

NoFile == [exists |-> FALSE, attrs |-> {}, chattrs |-> ChannelAttrs(0, 0, 0), datasets |-> <<>>]

Foreign(w, h, pix_fmt, raw, tag) ==
  Dataset(FileAsInt8(Mux(w, h, pix_fmt, <<"hevc">>, raw)), tag)

\* containers found on disk that this module did not write
H5_RGB ==
  [exists |-> TRUE, attrs |-> {<<"channel_spec", "sssr">>},
   chattrs |-> [ChannelAttrs(2, 1, 1) EXCEPT !.pad_right = <<1>>],
   datasets |-> << Foreign(2, 1, "yuv444p", <<0, 7, 200, 0>>, "signal"),
                   Foreign(2, 1, "yuv444p", <<7, 200, 0, 7>>, "signal"),
                   Foreign(2, 1, "yuv444p", <<200, 0, 7, 200>>, "signal"),
                   Foreign(2, 1, "yuv444p", <<7, 7, 0, 0>>, "reference") >>]

H5_Y ==
  [exists |-> TRUE, attrs |-> {<<"channel_spec", "sr">>},
   chattrs |-> ChannelAttrs(2, 1, 1),
   datasets |-> << Foreign(1, 1, "gray12le(tv)", <<200, 7, 0, 1>>, "signal"),
                   Foreign(1, 1, "yuv444p", <<7, 200>>, "reference") >>]

H5_Three ==
  [exists |-> TRUE, attrs |-> {<<"channel_spec", "ssr">>},
   chattrs |-> ChannelAttrs(1, 1, 2),
   datasets |-> << Foreign(2, 1, "yuv444p", <<0, 7>>, "signal"),
                   Foreign(2, 1, "yuv444p", <<7, 200>>, "signal"),
                   Foreign(2, 1, "yuv444p", <<200, 0>>, "reference") >>]

InitialFiles == {NoFile, H5_RGB, H5_Y, H5_Three}

\* ------------------------------------------------------------ the reader
\* len(channel_keys) - 1
NumChannels(nkeys) == nkeys - 1

\* the letter table of lines 111-118; unbound when neither branch is taken
Signals(num_channels) ==
  IF num_channels = 3
  THEN [bound |-> TRUE, map |-> ("R" :> 0 @@ "G" :> 1 @@ "B" :> 2)]
  ELSE IF num_channels = 1
  THEN [bound |-> TRUE, map |-> ("Y" :> 0)]
  ELSE [bound |-> FALSE, map |-> [c \in {} |-> 0]]

Str(s) == [kind |-> "str", s |-> s]

\* channels after the defaults of lines 113-118
DefaultChannels(num_channels, channels) ==
  IF channels /= None THEN channels
  ELSE IF num_channels = 3 THEN Str(<<"R", "G", "B">>)
  ELSE IF num_channels = 1 THEN Str(<<"Y">>)
  ELSE None

\* lines 127-131 with a lone decoded channel returned without the new axis
AssembleSignal_Squeeze(num_channels, signal_channels) ==
  IF num_channels = 3 /\ Len(signal_channels) /= 1
  THEN Concatenate([i \in 1..Len(signal_channels) |-> AddAxis(signal_channels[i])])
  ELSE IF num_channels \in {1, 3}
  THEN IF Len(signal_channels) = 0 THEN [err |-> "IndexError", value |-> None]
       ELSE [err |-> "", value |-> signal_channels[1]]
  ELSE [err |-> "", value |-> None]

\* lines 127-131
AssembleSignal(num_channels, signal_channels) ==
  IF num_channels = 3
  THEN Concatenate([i \in 1..Len(signal_channels) |-> AddAxis(signal_channels[i])])
  ELSE IF num_channels = 1
  THEN IF Len(signal_channels) = 0 THEN [err |-> "IndexError", value |-> None]
       ELSE [err |-> "", value |-> signal_channels[1]]
  ELSE [err |-> "", value |-> None]

\* lines 49-54
ResolvePixFmt(pix_fmt) ==
  IF pix_fmt = "gray12le(tv)" THEN [fmt |-> "gray12le", width |-> 2]
  ELSE [fmt |-> "yuv444p", width |-> 1]

\* what the engine wrote to its output before it ended
Cuts == {"full", "drop_byte", "drop_frame", "empty"}

Cut(stream, cut, framebytes) ==
  IF cut = "full" THEN stream
  ELSE IF cut = "empty" THEN <<>>
  ELSE IF cut = "drop_byte" THEN SubSeq(stream, 1, Len(stream) - 1)
  ELSE SubSeq(stream, 1, Len(stream) - framebytes)

\* np.frombuffer(stdout_data, dtype).reshape(-1, height, width), line 65
Frames(stdout, meta, width) ==
  LET e == FromBuffer(stdout, width)
  IN IF e.err /= "" THEN [err |-> e.err, value |-> None]
     ELSE Reshape(e.value, meta.size[2], meta.size[1])

\* ------------------------------------------------------------ the writer
\* lines 185-192 with height and width unpacked in the wrong order
WriteShape_Swapped(arr) ==
  IF Len(arr.shape) = 3
  THEN [err |-> "", nframes |-> arr.shape[1], height |-> arr.shape[3],
        width |-> arr.shape[2], nchannels |-> 1, arr |-> AddAxis(arr)]
  ELSE IF Len(arr.shape) = 4
  THEN [err |-> "", nframes |-> arr.shape[1], height |-> arr.shape[3],
        width |-> arr.shape[2], nchannels |-> arr.shape[4], arr |-> arr]
  ELSE [err |-> "ValueError", nframes |-> 0, height |-> 0, width |-> 0,
        nchannels |-> 0, arr |-> arr]

\* lines 185-192
WriteShape(arr) ==
  IF Len(arr.shape) = 3
  THEN [err |-> "", nframes |-> arr.shape[1], height |-> arr.shape[2],
        width |-> arr.shape[3], nchannels |-> 1, arr |-> AddAxis(arr)]
  ELSE IF Len(arr.shape) = 4
  THEN [err |-> "", nframes |-> arr.shape[1], height |-> arr.shape[2],
        width |-> arr.shape[3], nchannels |-> arr.shape[4], arr |-> arr]
  ELSE [err |-> "ValueError", nframes |-> 0, height |-> 0, width |-> 0,
        nchannels |-> 0, arr |-> arr]

\* the file opened for writing before the rank of the array is checked
OpenForWrite_Always(file, shp) ==
  [exists |-> TRUE, attrs |-> {},
   chattrs |-> ChannelAttrs(shp.nframes, shp.height, shp.width),
   datasets |-> <<>>]

\* h5py.File(filename, 'w'), create_group('Channels'), grp.attrs.update(attrs)
OpenForWrite(file, shp) ==
  IF shp.err /= "" THEN file
  ELSE [exists |-> TRUE, attrs |-> {},
        chattrs |-> ChannelAttrs(shp.nframes, shp.height, shp.width),
        datasets |-> <<>>]

\* create_dataset(f'Channel_{n}', data = data); ds.attrs['content_type'] = b'signal'
CreateDataset(file, n, data) ==
  [file EXCEPT !.datasets = Append(file.datasets, Dataset(data, "signal"))]

\* the file the engine leaves behind
EncodeOutcomes == {"ok", "partial", "nofile"}

EngineEncode(arr, codec, outcome) ==
  LET raw == arr.data
  IN Mux(arr.shape[3], arr.shape[2], "gray", codec,
         IF outcome = "ok" THEN raw ELSE SubSeq(raw, 1, Len(raw) - 1))

\* ---------------------------------------------------------------- inputs
SeqsUpTo(S, n) == UNION {[1..k -> S] : k \in 0..n}

ChannelArgs == {None} \cup {Str(s) : s \in SeqsUpTo(Letters, MaxRequest)}

Arrays3 == {MkArray(<<f, hw[1], hw[2]>>, 0) : f \in 1..MaxFrames, hw \in Planes}

Arrays4 == {MkArray(<<f, hw[1], hw[2], k>>, 1) :
              f \in 1..MaxFrames, hw \in Planes, k \in 0..MaxChannels}

ArraysBadRank == {MkArray(<<2>>, 0), MkArray(<<1, 2>>, 0), MkArray(<<1, 1, 2, 1, 1>>, 0)}

Arrays == Arrays3 \cup Arrays4 \cup ArraysBadRank


\* ----------------------------------------------------------------- state
VARIABLES
  engine,    \* the installed external engine and what `ffmpeg -codecs` prints
  module,    \* the imported module: _hevc_codecs, the functions it defines
  h5,        \* the container file at `filename`
  scratch,   \* names of the temporary files that exist
  pc,        \* position of the running call
  call,      \* arguments and locals of read_h5j / write_binary_h5j
  sub,       \* arguments and locals of extract_channel / encode_channel
  ret,       \* how the last call ended
  ncalls,    \* calls made so far
  written    \* the array a complete, fault-free write left in h5, else None

vars == <<engine, module, h5, scratch, pc, call, sub, ret, ncalls, written>>

NoCall ==
  [op |-> "none", channels |-> None, reference |-> FALSE, arr |-> None, codec |-> <<>>,
   attributes |-> {}, nkeys |-> 0, num_channels |-> 0,
   signals |-> Signals(0), chans |-> <<>>, i |-> 0, signal_channels |-> <<>>,
   signal |-> None, shp |-> WriteShape(MkArray(<<>>, 0)), n |-> 0, runs |-> <<>>]

NoSub ==
  [fn |-> "none", caller |-> "none", idx |-> 0, raw_data |-> None, arr |-> None,
   codec |-> <<>>, tmp |-> 0, meta |-> None, fmt |-> ResolvePixFmt(""), file |-> None]

NoRet ==
  [status |-> "none", err |-> "", signal |-> None, reference |-> None,
   attributes |-> {}, value |-> None]

Raised(e) == [NoRet EXCEPT !.status = "raised", !.err = e]

Returned(v) == [NoRet EXCEPT !.status = "returned", !.value = v]

\* a name no existing temporary file has (NamedTemporaryFile, uuid4)
Fresh == CHOOSE t \in 1..(Cardinality(scratch) + 1) : t \notin scratch

\* one engine run of the current call, as the call saw it
Run(kind, chan, outcome, out) == [kind |-> kind, chan |-> chan, outcome |-> outcome, out |-> out]

Init ==
  /\ engine \in EngineInstalls
  /\ module = [state |-> "importing", err |-> "", hevc_codecs |-> None,
               api |-> {}, warned |-> FALSE]
  /\ h5 \in InitialFiles
  /\ scratch = {}
  /\ pc = "boot"
  /\ call = NoCall
  /\ sub = NoSub
  /\ ret = NoRet
  /\ ncalls = 0
  /\ written = None

\* lines 12-25 and 142-147: the module body
Import ==
  /\ pc = "boot"
  /\ LET r == get_hevc_codecs(engine)
     IN IF r.err /= ""
        THEN /\ module' = [module EXCEPT !.state = "import_error", !.err = r.err]
             /\ pc' = "crashed"
        ELSE IF Len(r.value) = 0
        THEN /\ module' = [module EXCEPT !.state = "loaded", !.warned = TRUE,
                                         !.api = ReadApi]
             /\ pc' = "idle"
        ELSE /\ module' = [module EXCEPT !.state = "loaded",
                                         !.hevc_codecs = [kind |-> "list", items |-> r.value],
                                         !.api = ReadApi \cup WriteApi]
             /\ pc' = "idle"
  /\ UNCHANGED <<engine, h5, scratch, call, sub, ret, ncalls, written>>

\* lines 40-42: the temporary file is created and the bytes written to it
StartExtract(raw_data, caller, idx) ==
  /\ scratch' = scratch \cup {Fresh}
  /\ sub' = [NoSub EXCEPT !.fn = "extract_channel", !.caller = caller, !.idx = idx,
                          !.raw_data = raw_data, !.tmp = Fresh]
  /\ pc' = "extract_probe"

\* an exception leaves extract_channel: the with block deletes the file
ExtractRaise(e) ==
  /\ scratch' = scratch \ {sub.tmp}
  /\ ret' = Raised(e)
  /\ pc' = "ended"

\* lines 97-122: open, read the attributes, detect the channels
read_h5j_open(channels, reference) ==
  /\ pc = "idle"
  /\ ncalls < MaxCalls
  /\ "read_h5j" \in module.api
  /\ ncalls' = ncalls + 1
  /\ sub' = NoSub
  /\ LET num == NumChannels(Len(h5.datasets))
         c == [NoCall EXCEPT !.op = "read_h5j", !.channels = channels,
                             !.reference = reference,
                             !.attributes = h5.attrs, !.nkeys = Len(h5.datasets),
                             !.num_channels = num, !.signals = Signals(num)]
         chans == DefaultChannels(num, channels)
     IN IF ~h5.exists
        THEN /\ call' = [NoCall EXCEPT !.op = "read_h5j", !.channels = channels,
                                       !.reference = reference]
             /\ ret' = Raised("OSError")
             /\ pc' = "ended"
        ELSE IF chans = None
        THEN /\ call' = c
             /\ ret' = Raised("TypeError")
             /\ pc' = "ended"
        ELSE /\ call' = [c EXCEPT !.chans = chans.s]
             /\ ret' = NoRet
             /\ pc' = "read_loop"
  /\ UNCHANGED <<engine, module, written, h5, scratch>>

\* lines 122-123: the next requested letter is looked up and its decode begins
read_h5j_channel ==
  /\ pc = "read_loop"
  /\ call.i < Len(call.chans)
  /\ LET channel == call.chans[call.i + 1]
     IN IF ~call.signals.bound
        THEN /\ ret' = Raised("UnboundLocalError")
             /\ pc' = "ended"
             /\ UNCHANGED <<scratch, sub>>
        ELSE IF channel \notin DOMAIN call.signals.map
        THEN /\ ret' = Raised("KeyError")
             /\ pc' = "ended"
             /\ UNCHANGED <<scratch, sub>>
        ELSE /\ StartExtract(DatasetBytes(h5.datasets[call.signals.map[channel] + 1]),
                             "signal", call.signals.map[channel])
             /\ UNCHANGED ret
  /\ UNCHANGED <<engine, module, written, h5, call, ncalls>>

\* lines 126-139: assemble the signal, then the reference or the return
read_h5j_assemble ==
  /\ pc = "read_loop"
  /\ call.i = Len(call.chans)
  /\ LET a == AssembleSignal(call.num_channels, call.signal_channels)
     IN IF a.err /= ""
        THEN /\ ret' = Raised(a.err)
             /\ pc' = "ended"
             /\ UNCHANGED <<scratch, sub, call>>
        ELSE IF call.reference
        THEN IF call.num_channels + 1 \notin DOMAIN h5.datasets
             THEN /\ ret' = Raised("KeyError")
                  /\ pc' = "ended"
                  /\ call' = [call EXCEPT !.signal = a.value]
                  /\ UNCHANGED <<scratch, sub>>
             ELSE /\ StartExtract(DatasetBytes(h5.datasets[call.num_channels + 1]),
                                  "reference", call.num_channels)
                  /\ call' = [call EXCEPT !.signal = a.value]
                  /\ UNCHANGED ret
        ELSE /\ ret' = [NoRet EXCEPT !.status = "returned", !.signal = a.value,
                                     !.reference = None, !.attributes = call.attributes]
             /\ call' = [call EXCEPT !.signal = a.value]
             /\ pc' = "ended"
             /\ UNCHANGED <<scratch, sub>>
  /\ UNCHANGED <<engine, module, written, h5, ncalls>>

\* a direct call of extract_channel(raw_data)
extract_channel_call(raw_data) ==
  /\ pc = "idle"
  /\ ncalls < MaxCalls
  /\ "extract_channel" \in module.api
  /\ ncalls' = ncalls + 1
  /\ call' = [NoCall EXCEPT !.op = "extract_channel"]
  /\ ret' = NoRet
  /\ StartExtract(raw_data, "user", 0)
  /\ UNCHANGED <<engine, module, written, h5>>

\* lines 44-54: probe the file, choose the raw format
extract_channel_probe ==
  /\ pc = "extract_probe"
  /\ \E ok \in BOOLEAN :
       IF ~ok
       THEN /\ ExtractRaise("OSError")
            /\ call' = [call EXCEPT !.runs =
                          Append(@, Run("decode", sub.idx, "probe_failed", None))]
            /\ UNCHANGED sub
       ELSE /\ sub' = [sub EXCEPT !.meta = [size |-> sub.raw_data.size,
                                            pix_fmt |-> sub.raw_data.pix_fmt],
                                  !.fmt = ResolvePixFmt(sub.raw_data.pix_fmt)]
            /\ pc' = "extract_transcode"
            /\ UNCHANGED <<scratch, ret, call>>
  /\ UNCHANGED <<engine, module, written, h5, ncalls>>

\* lines 56-67: transcode to raw, reshape, leave the with block, return
extract_channel_transcode ==
  /\ pc = "extract_transcode"
  /\ \E cut \in Cuts :
       LET framebytes == sub.meta.size[1] * sub.meta.size[2] * sub.fmt.width
           stdout_data == Cut(sub.raw_data.stream, cut, framebytes)
           frames == Frames(stdout_data, sub.meta, sub.fmt.width)
           run == Run("decode", sub.idx, cut, frames.value)
       IN /\ TRUE
          /\ IF frames.err /= ""
             THEN /\ ExtractRaise(frames.err)
                  /\ call' = [call EXCEPT !.runs = Append(@, run)]
             ELSE /\ scratch' = scratch \ {sub.tmp}
                  /\ IF sub.caller = "signal"
                     THEN /\ call' = [call EXCEPT
                                        !.signal_channels = Append(@, frames.value),
                                        !.i = @ + 1, !.runs = Append(@, run)]
                          /\ pc' = "read_loop"
                          /\ UNCHANGED ret
                     ELSE IF sub.caller = "reference"
                     THEN /\ call' = [call EXCEPT !.runs = Append(@, run)]
                          /\ ret' = [NoRet EXCEPT !.status = "returned",
                                                  !.signal = call.signal,
                                                  !.reference = frames.value,
                                                  !.attributes = call.attributes]
                          /\ pc' = "ended"
                     ELSE /\ call' = [call EXCEPT !.runs = Append(@, run)]
                          /\ ret' = Returned(frames.value)
                          /\ pc' = "ended"
  /\ UNCHANGED <<engine, module, written, h5, sub, ncalls>>


\* lines 148-150: the name of the output file is chosen; nothing exists yet
StartEncode(arr, codec, caller, n) ==
  /\ sub' = [NoSub EXCEPT !.fn = "encode_channel", !.caller = caller, !.idx = n,
                          !.arr = arr, !.codec = codec, !.tmp = Fresh]
  /\ pc' = "encode_run"

\* lines 185-201: check the rank, create the file, the group and its attributes
write_binary_h5j_open(arr) ==
  /\ pc = "idle"
  /\ ncalls < MaxCalls
  /\ "write_binary_h5j" \in module.api
  /\ ncalls' = ncalls + 1
  /\ sub' = NoSub
  /\ LET shp == WriteShape(arr)
     IN /\ call' = [NoCall EXCEPT !.op = "write_binary_h5j", !.arr = arr,
                                  !.codec = module.hevc_codecs.items[1],
                                  !.shp = shp]
        /\ h5' = OpenForWrite(h5, shp)
        /\ written' = IF shp.err /= "" THEN written ELSE None
        /\ IF shp.err /= ""
           THEN /\ ret' = Raised(shp.err)
                /\ pc' = "ended"
           ELSE /\ ret' = NoRet
                /\ pc' = "write_loop"
  /\ UNCHANGED <<engine, module, scratch>>

\* lines 202-203: the next channel slice goes to encode_channel
write_binary_h5j_channel ==
  /\ pc = "write_loop"
  /\ call.n < call.shp.nchannels
  /\ StartEncode(SliceChannel(call.shp.arr, call.n), call.codec, "write", call.n)
  /\ UNCHANGED <<engine, module, written, h5, scratch, call, ret, ncalls>>

\* line 202 exhausted: the file is closed and the call returns None
write_binary_h5j_close ==
  /\ pc = "write_loop"
  /\ call.n = call.shp.nchannels
  /\ ret' = Returned(None)
  /\ pc' = "ended"
  /\ written' = IF \A r \in 1..Len(call.runs) : call.runs[r].outcome = "ok"
                THEN call.arr ELSE None
  /\ UNCHANGED <<engine, module, h5, scratch, call, sub, ncalls>>

\* a direct call of encode_channel(arr)
encode_channel_call(arr) ==
  /\ pc = "idle"
  /\ ncalls < MaxCalls
  /\ "encode_channel" \in module.api
  /\ ncalls' = ncalls + 1
  /\ call' = [NoCall EXCEPT !.op = "encode_channel", !.arr = arr]
  /\ ret' = NoRet
  /\ StartEncode(arr, module.hevc_codecs.items[1], "user", 0)
  /\ UNCHANGED <<engine, module, written, h5, scratch>>

\* lines 152-164: the engine runs and leaves a whole, a partial or no file
encode_channel_run ==
  /\ pc = "encode_run"
  /\ \E outcome \in EncodeOutcomes :
       /\ scratch' = IF outcome = "nofile" THEN scratch ELSE scratch \cup {sub.tmp}
       /\ sub' = [sub EXCEPT !.file = EngineEncode(sub.arr, sub.codec, outcome),
                             !.meta = [outcome |-> outcome]]
  /\ pc' = "encode_readback"
  /\ UNCHANGED <<engine, module, written, h5, call, ret, ncalls>>

\* lines 165-168, then lines 204-205 in the writer
encode_channel_readback ==
  /\ pc = "encode_readback"
  /\ IF sub.tmp \notin scratch
     THEN /\ ret' = Raised("FileNotFoundError")
          /\ pc' = "ended"
          /\ call' = [call EXCEPT !.runs =
                        Append(@, Run("encode", sub.idx, sub.meta.outcome, None))]
          /\ UNCHANGED <<h5, scratch>>
     ELSE \E readok \in BOOLEAN :
            IF ~readok
            THEN /\ ret' = Raised("OSError")
                 /\ pc' = "ended"
                 /\ call' = [call EXCEPT !.runs =
                               Append(@, Run("encode", sub.idx, sub.meta.outcome, None))]
                 /\ UNCHANGED <<h5, scratch>>
            ELSE LET cc == FileAsInt8(sub.file)
                     run == Run("encode", sub.idx, sub.meta.outcome, cc)
                 IN /\ scratch' = scratch \ {sub.tmp}
                    /\ IF sub.caller = "write"
                       THEN /\ h5' = CreateDataset(h5, call.n, cc)
                            /\ call' = [call EXCEPT !.n = @ + 1, !.runs = Append(@, run)]
                            /\ pc' = "write_loop"
                            /\ UNCHANGED ret
                       ELSE /\ call' = [call EXCEPT !.runs = Append(@, run)]
                            /\ ret' = Returned(cc)
                            /\ pc' = "ended"
                            /\ UNCHANGED h5
  /\ UNCHANGED <<engine, module, written, sub, ncalls>>

\* the caller has the result (or the exception); the frames of the call are gone
Return ==
  /\ pc = "ended"
  /\ pc' = "idle"
  /\ call' = NoCall
  /\ sub' = NoSub
  /\ ret' = NoRet
  /\ UNCHANGED <<engine, module, written, h5, scratch, ncalls>>

SampleBlobs == {DatasetBytes(H5_RGB.datasets[1]), DatasetBytes(H5_Y.datasets[1])}

Next ==
  \/ Import
  \/ \E channels \in ChannelArgs, reference \in BOOLEAN : read_h5j_open(channels, reference)
  \/ read_h5j_channel
  \/ read_h5j_assemble
  \/ \E raw_data \in SampleBlobs : extract_channel_call(raw_data)
  \/ extract_channel_probe
  \/ extract_channel_transcode
  \/ \E arr \in Arrays : write_binary_h5j_open(arr)
  \/ write_binary_h5j_channel
  \/ write_binary_h5j_close
  \/ \E arr \in Arrays3 : encode_channel_call(arr)
  \/ encode_channel_run
  \/ encode_channel_readback
  \/ Return

Spec == Init /\ [][Next]_vars

\* ---------------------------------------------------------------- claims
\* a call of op has ended
Ended(op) == pc = "ended" /\ call.op = op

\* the stack a fault-free extract_channel gives for a dataset
Decoded(ds) ==
  LET b == DatasetBytes(ds)
  IN Frames(b.stream, [size |-> b.size, pix_fmt |-> b.pix_fmt],
            ResolvePixFmt(b.pix_fmt).width).value

\* the channel index the format gives each signal letter
LetterIndex(c) == IF c = "G" THEN 1 ELSE IF c = "B" THEN 2 ELSE 0

FaultFree == \A r \in 1..Len(call.runs) : call.runs[r].outcome \in {"ok", "full"}

\* C1: a 3D uint8 stack written by write_binary_h5j and read back by
\* read_h5j(path, reference = False), every engine run succeeding, comes back
\* as the same array with the same shape.
C1_RoundTrip ==
  (/\ Ended("read_h5j")
   /\ written /= None
   /\ Len(written.shape) = 3
   /\ call.channels = None
   /\ ~call.reference
   /\ FaultFree)
  => (ret.status = "returned" /\ ret.signal = written)

\* C2: reading a container whose Channels group holds a number of datasets
\* other than 2 or 4 raises, whatever channels and reference are, before any
\* channel is decoded.
C2_UnsupportedCountRaises ==
  (Ended("read_h5j") /\ h5.exists /\ call.nkeys \notin {2, 4})
  => (ret.status = "raised" /\ call.runs = <<>>)

\* C3: on a container of 2 or 4 datasets, channels = "" returns with signal
\* None, the global attributes unchanged, and the reference decoded exactly
\* when reference = True.
C3_EmptyRequest ==
  (/\ Ended("read_h5j")
   /\ call.nkeys \in {2, 4}
   /\ call.channels = Str(<<>>)
   /\ FaultFree)
  => (/\ ret.status = "returned"
      /\ ret.signal = None
      /\ ret.attributes = h5.attrs
      /\ ret.reference = IF call.reference
                         THEN Decoded(h5.datasets[call.nkeys])
                         ELSE None)

\* one signal letter of the container was requested and the read returned
SingleLetterRead ==
  /\ Ended("read_h5j")
  /\ ret.status = "returned"
  /\ call.nkeys \in {2, 4}
  /\ call.channels /= None
  /\ Len(call.channels.s) = 1
  /\ call.channels.s[1] \in (IF call.nkeys = 4 THEN {"R", "G", "B"} ELSE {"Y"})

\* C4 (as stated): a single requested signal letter gives a 3D signal, the
\* decoded stack of that channel, with no trailing channel axis.
C4_SingleChannel3D ==
  SingleLetterRead
  => (Len(ret.signal.shape) = 3 /\ ret.signal = call.runs[1].out)

\* C4 (amended): a single requested signal letter gives the decoded stack of
\* that channel: as a 3D array on a 2-dataset container, and as a 4D array
\* with a trailing axis of length 1 on a 4-dataset container.
C4_SingleChannelAmended ==
  SingleLetterRead
  => LET k == LetterIndex(call.channels.s[1])
         run == call.runs[1]
     IN /\ run.chan = k
        /\ run.outcome = "full" => run.out = Decoded(h5.datasets[k + 1])
        /\ IF call.nkeys = 2
           THEN Len(ret.signal.shape) = 3 /\ ret.signal = run.out
           ELSE /\ ret.signal.shape = run.out.shape \o <<1>>
                /\ ret.signal.data = run.out.data

C4_Witness ==
  /\ SingleLetterRead
  /\ call.nkeys = 4
  /\ call.channels = Str(<<"G">>)
  /\ call.runs[1].outcome = "full"
  /\ ret.signal.shape = <<2, 1, 2, 1>>

\* two or more letters of R, G, B were requested on a 4-dataset container
MultiLetterRead ==
  /\ Ended("read_h5j")
  /\ ret.status = "returned"
  /\ call.nkeys = 4
  /\ call.channels /= None
  /\ Len(call.channels.s) >= 2
  /\ \A i \in 1..Len(call.channels.s) : call.channels.s[i] \in {"R", "G", "B"}

\* C5: on a 4-dataset container a request of two or more letters of R, G, B
\* gives a 4D signal whose trailing axis has one entry per requested letter,
\* entry i being the decoded Channel_k of the i-th letter (R=0, G=1, B=2), in
\* request order.
C5_StackingOrder ==
  MultiLetterRead
  => LET s == call.channels.s
         n == Len(s)
     IN /\ Len(ret.signal.shape) = 4
        /\ ret.signal.shape[4] = n
        /\ \A i \in 1..n :
             /\ call.runs[i].chan = LetterIndex(s[i])
             /\ call.runs[i].outcome = "full"
                  => call.runs[i].out = Decoded(h5.datasets[LetterIndex(s[i]) + 1])
             /\ SubSeq(ret.signal.shape, 1, 3) = call.runs[i].out.shape
             /\ \A j \in 1..Len(call.runs[i].out.data) :
                  ret.signal.data[(j - 1) * n + i] = call.runs[i].out.data[j]

C5_Witness ==
  /\ MultiLetterRead
  /\ call.channels = Str(<<"B", "R">>)
  /\ FaultFree
  /\ ret.signal.data = <<200, 0, 0, 7, 7, 200, 200, 0>>

\* the engine cannot be used for discovery: absent, failing, or printing a
\* hevc line without the 'encoders: ' marker
DiscoveryFails ==
  \/ ~engine.present
  \/ engine.stdout = <<>>
  \/ \E i \in 1..Len(engine.stdout) :
       /\ MentionsHevc(engine.stdout[i])
       /\ \A j \in 1..Len(engine.stdout[i]) : engine.stdout[i][j] /= "encoders: "

\* C6: when discovery fails, get_hevc_codecs gives an empty sequence, the
\* module loads with a warning, the encode functions are not defined, and
\* read_h5j and extract_channel are.
C6_DiscoveryFailsSoft ==
  (pc /= "boot" /\ DiscoveryFails)
  => (/\ module.state = "loaded"
      /\ module.warned
      /\ module.hevc_codecs = None
      /\ module.api \cap WriteApi = {}
      /\ {"read_h5j", "extract_channel"} \subseteq module.api)

\* C7: once a call of extract_channel or encode_channel has ended, on any
\* exit path, the temporary file it created no longer exists.
C7_TempCleanup == pc \in {"ended", "idle"} => scratch = {}

\* C8: in read_h5j and write_binary_h5j, an engine run that fails or leaves
\* no or partial output makes the operation raise at that channel: it is the
\* last run of the call and the call ends with an error.
C8_NoPartialSuccess ==
  call.op \in {"read_h5j", "write_binary_h5j"}
  => \A r \in 1..Len(call.runs) :
       call.runs[r].outcome \notin {"ok", "full"}
       => (r = Len(call.runs) /\ pc = "ended" /\ ret.status = "raised")

\* C9: after write_binary_h5j completes on a 3D (K = 1) or 4D array, the
\* Channels group holds exactly Channel_0..Channel_(K-1), created in
\* increasing order, Channel_n being the encoding of slice n tagged
\* "signal", and the group attributes are frames = F, height = H, width = W,
\* pad_bottom = pad_right = 0, each a 1-element array.
C9_WriterLayout ==
  (Ended("write_binary_h5j") /\ ret.status = "returned")
  => LET a == call.arr
         K == IF Len(a.shape) = 3 THEN 1 ELSE a.shape[4]
         m == a.shape[1] * a.shape[2] * a.shape[3]
     IN /\ Len(h5.datasets) = K
        /\ Len(call.runs) = K
        /\ \A n \in 0..(K - 1) :
             LET ds == h5.datasets[n + 1]
             IN /\ ds.content_type = "signal"
                /\ call.runs[n + 1].chan = n
                /\ ds.data = call.runs[n + 1].out
                /\ ds.data.size = <<a.shape[3], a.shape[2]>>
                /\ call.runs[n + 1].outcome = "ok"
                     => ToBytes(ds.data.stream) = [j \in 1..m |-> a.data[(j - 1) * K + n + 1]]
        /\ h5.chattrs = [frames |-> <<a.shape[1]>>, height |-> <<a.shape[2]>>,
                         width |-> <<a.shape[3]>>, pad_bottom |-> <<0>>,
                         pad_right |-> <<0>>]

C9_Witness ==
  /\ Ended("write_binary_h5j")
  /\ ret.status = "returned"
  /\ call.arr.shape = <<2, 1, 2, 2>>
  /\ FaultFree
  /\ Len(h5.datasets) = 2

\* C10: for an array whose rank is not 3 or 4, write_binary_h5j raises a
\* shape error at once: the step that enters the call ends it with
\* ValueError, leaves the container file as it was, creates no temporary
\* file and encodes no channel.
C10_RankCheck ==
  [][(call'.op = "write_binary_h5j" /\ call' /= call
        /\ Len(call'.arr.shape) \notin {3, 4})
     => (/\ pc' = "ended"
         /\ ret' = Raised("ValueError")
         /\ h5' = h5
         /\ scratch' = scratch
         /\ call'.runs = <<>>
         /\ sub' = NoSub)]_vars

C10_Witness ==
  /\ pc = "ended"
  /\ call.op = "write_binary_h5j"
  /\ Len(call.arr.shape) = 2
  /\ ret = Raised("ValueError")
  /\ h5 = H5_RGB

====
